---- MODULE Spec2Model ----
(***************************************************************************)
(* R-Link-Server plugin lifecycle core: PluginManager (core/               *)
(* plugin_manager.py), ProcessPool (core/process_pool.py) and PythonPlugin *)
(* (core/python_plugin.py).                                                *)
(*                                                                         *)
(* Spec      : every manager operation is one atomic step (the façade      *)
(*             calls the manager from one event loop), interleaved with    *)
(*             the environment (process death, worker exit).               *)
(* SpecConc  : two callers run start_plugin for the same name, one source  *)
(*             statement group at a time.                                  *)
(* SpecCmd   : plugins are started and stopped and execute_command is      *)
(*             called in every status.                                     *)
(* SpecFault : the lifecycle operations under backend failures.            *)
(* SpecNotFound : every operation called with a name not in the table.     *)
(* SpecDiscovery : _load_plugins over the plugin directories, one          *)
(*             directory at a time.                                        *)
(* SpecUninstall : the lifecycle with the uninstall handler.               *)
(* SpecReload : the entry file changes and reload_plugin is called.        *)
(* SpecAll   : the lifecycle with get_all_statuses.                        *)
(* SpecCleanup : the lifecycle with PluginManager.cleanup.                 *)
(* SpecLogs  : plugins are started and stopped, their processes write to   *)
(*             the log file, and get_plugin_logs reads it.                 *)
(***************************************************************************)
EXTENDS Integers, Sequences, FiniteSets, TLC

\* ------------------------------------------------------------------ bounds
\* OS processes spawned in one run (pids are 1..MaxSpawn)
MaxSpawn == 2
\* capability objects instantiated in one run (each may get one worker)
MaxInst == 2

\* lines a log file holds in one run
MaxLines == 3

\* ------------------------------------------------------------- vocabulary
Names == {"p1", "p2"}

STOPPED == "stopped"
STARTING == "starting"
RUNNING == "running"
STOPPING == "stopping"
ERROR == "error"
PluginStatus == {STOPPED, STARTING, RUNNING, STOPPING, ERROR}

PY_UNLOADED == "unloaded"
PY_LOADED == "loaded"
PY_RUNNING == "running"
PY_ERROR == "error"
PythonPluginStatus == {PY_UNLOADED, PY_LOADED, PY_RUNNING, PY_ERROR}

\* ProcessInfo.process, PythonPlugin.instance and PythonPlugin.thread are
\* Optional: 0 stands for None, a positive number names the object.
NoProc == 0
NoInst == 0
NoThread == 0
NoModule == "None"

\* Configuration documents: a dict over Keys, value 0 = key absent.
Keys == {"k1", "k2"}
Doc(a, b) == [k \in Keys |-> IF k = "k1" THEN a ELSE b]
EmptyDoc == Doc(0, 0)
\* dict.copy() followed by dict.update(over); `if config:` skips None and {}
Merge(base, over) == [k \in Keys |-> IF over[k] # 0 THEN over[k] ELSE base[k]]

\* manifest default_config of every plugin of the model
DefaultConfig == Doc(1, 0)
\* documents passed to set_plugin_config
ConfigInputs == {Doc(0, 1), Doc(2, 0)}
\* config argument of start_plugin: None (EmptyDoc) or a document
StartOverrides == {EmptyDoc, Doc(2, 0)}

\* Code unit found at the entry file of a Python plugin.
CodeUnits == {"missing", "noclass", "v1"}

\* Lines a plugin process writes, and the `lines` arguments of get_plugin_logs
LogLines == {"a", "b"}
LineCounts == 0 .. (MaxLines + 1)

VARIABLES
    plugins,     \* PluginManager.plugins: name -> manifest/info of the wrapper
    processes,   \* ProcessPool.processes: name -> ProcessInfo
    osProcs,     \* the OS: pid -> spawned process (owner, liveness, launch)
    pyPlugins,   \* PythonPlugin objects: name -> status/module/instance/thread/stop_event
    objs,        \* capability objects created by plugin_class(...)
    workers,     \* threads created by PythonPlugin.start
    configFile,  \* config/<name>.json on disk
    codeUnit,    \* entry file of each Python plugin on disk
    last,        \* the last manager call: operation, arguments, result
    pc,          \* SpecConc: position of each caller inside start_plugin
    loc,         \* SpecConc: locals of each caller
    logFile,     \* logs/<name>.log on disk
    pyManaged,   \* PythonPluginManager.plugins: its own PythonPlugin objects
    dirs,        \* the plugin directories on disk: name -> root and contents
    scan         \* position of _load_plugins during construction

vars == <<plugins, processes, osProcs, pyPlugins, objs, workers, configFile,
          codeUnit, last, pc, loc, logFile, pyManaged, dirs, scan>>

\* ------------------------------------------------------------- the table
BinaryManifest(b) == [kind |-> "binary", builtin |-> b, hasRun |-> FALSE, hasHooks |-> FALSE]
PythonInfo(b, r, h) == [kind |-> "python", builtin |-> b, hasRun |-> r, hasHooks |-> h]
Manifests ==
    {BinaryManifest(b) : b \in BOOLEAN}
    \cup {PythonInfo(b, r, h) : b \in BOOLEAN, r \in BOOLEAN, h \in BOOLEAN}

IsBinary(n) == n \in DOMAIN plugins /\ plugins[n].kind = "binary"
IsPython(n) == n \in DOMAIN plugins /\ plugins[n].kind = "python"

\* ------------------------------------------------- plugin directories
\* What discovery looks at in one directory: the root it lies in, its
\* manifest.yaml (absent, not loadable as either manifest class, a binary
\* manifest, a Python manifest), whether it holds a *.py file and whether it
\* holds a file with suffix ".exe" or none.
ManifestKinds == {"none", "garbage", "binary", "python"}
Roots == {"user", "builtin"}
Contents == [root : Roots, manifest : ManifestKinds, hasPy : BOOLEAN, hasBin : BOOLEAN]

\* the directory a registered plugin was discovered in
DirOf(info) ==
    [root |-> IF info.builtin THEN "builtin" ELSE "user",
     manifest |-> info.kind, hasPy |-> info.kind = "python",
     hasBin |-> info.kind = "binary"]

\* _load_plugins: the four _load_from_dir calls, then done
Phases == <<[type |-> "binary", root |-> "user"], [type |-> "binary", root |-> "builtin"],
            [type |-> "python", root |-> "user"], [type |-> "python", root |-> "builtin"]>>
ScanDone == [phase |-> Len(Phases) + 1, seen |-> {}, crashed |-> FALSE]
ScanStart == [phase |-> 1, seen |-> {}, crashed |-> FALSE]

\* ProcessInfo(...) as built by add_process
NewProcessInfo == [process |-> NoProc, status |-> STOPPED, start_time |-> FALSE]
\* PythonPlugin.__init__
NewPythonPlugin ==
    [status |-> PY_UNLOADED, module |-> NoModule, instance |-> NoInst,
     thread |-> NoThread, stop_event |-> FALSE]

NoCall == [op |-> "none", name |-> "p1", arg |-> EmptyDoc, ret |-> "none",
           status |-> "none", pid |-> NoProc, pre |-> "none", env |-> "none",
           trace |-> <<>>, lines |-> 0, out |-> <<>>, all |-> <<>>]
Call(op, n, arg, ret, pre, env, trace) ==
    [NoCall EXCEPT !.op = op, !.name = n, !.arg = arg, !.ret = ret,
                   !.pre = pre, !.env = env, !.trace = trace]

Bool(b) == IF b THEN "true" ELSE "false"

\* ------------------------------------------------- ProcessPool (binary)
\* A pool state is the pair (processes, osProcs); every operation returns the
\* new pair, its return value and the statuses it assigned, in order.
PoolResult(procs, os, ret, trace) ==
    [processes |-> procs, osProcs |-> os, ret |-> ret, trace |-> trace]

add_process(procs, n) ==
    IF n \in DOMAIN procs THEN procs ELSE procs @@ (n :> NewProcessInfo)

\* psutil.Popen(cmd, ...): the new process gets the next pid
Popen(os, n, path, args, cfg, st) ==
    Append(os, [owner |-> n, state |-> st, path |-> path, args |-> args,
                cfg |-> cfg, signals |-> <<>>])

\* process.is_running(): "raise" when the probe itself fails
is_running(os, pid) ==
    CASE os[pid].state = "alive" -> "yes"
      [] os[pid].state = "dead"  -> "no"
      [] OTHER                   -> "raise"

AlreadyRunningSkipped(info) == FALSE
\* `if process_info.status == PluginStatus.RUNNING` of start_process
AlreadyRunning(info) == info.status = RUNNING

\* outcome: "raise" (Popen raises), "ok" (spawned and alive at the check),
\* "exited" (spawned, not running at the check)
start_process(procs, os, n, path, args, cfg, outcome) ==
    LET p1 == add_process(procs, n)
        os2 == Popen(os, n, path, args, cfg,
                     IF outcome = "ok" THEN "alive" ELSE "dead")
        pid == Len(os2)
    IN  IF AlreadyRunning(p1[n])
        THEN PoolResult(p1, os, "false", <<>>)
        ELSE IF outcome = "raise"
        THEN PoolResult([p1 EXCEPT ![n].status = ERROR], os, "false",
                        <<STARTING, ERROR>>)
        ELSE IF outcome = "ok"
        THEN PoolResult([p1 EXCEPT ![n] = [process |-> pid, status |-> RUNNING,
                                           start_time |-> TRUE]],
                        os2, "true", <<STARTING, RUNNING>>)
        ELSE PoolResult([p1 EXCEPT ![n] = [process |-> pid, status |-> ERROR,
                                           start_time |-> TRUE]],
                        os2, "false", <<STARTING, ERROR>>)

TerminateKillFirst(os, pid, graceful) ==
    [os EXCEPT ![pid].state = "dead", ![pid].signals = @ \o <<"kill">>]
\* terminate(); wait(timeout); on TimeoutExpired kill(); wait()
Terminate(os, pid, graceful) ==
    [os EXCEPT ![pid].state = "dead",
               ![pid].signals = IF graceful THEN @ \o <<"terminate">>
                                ELSE @ \o <<"terminate", "kill">>]

stop_process(procs, os, n, graceful) ==
    IF n \notin DOMAIN procs THEN PoolResult(procs, os, "false", <<>>)
    ELSE IF procs[n].status # RUNNING THEN PoolResult(procs, os, "true", <<>>)
    ELSE LET pid == procs[n].process
             probe == IF pid = NoProc THEN "no" ELSE is_running(os, pid)
             stopped == [procs EXCEPT ![n] = [process |-> NoProc, status |-> STOPPED,
                                              start_time |-> FALSE]]
         IN  IF probe = "raise"
             THEN PoolResult([procs EXCEPT ![n].status = ERROR], os, "false",
                             <<STOPPING, ERROR>>)
             ELSE IF probe = "yes"
             THEN PoolResult(stopped, Terminate(os, pid, graceful), "true",
                             <<STOPPING, STOPPED>>)
             ELSE PoolResult(stopped, os, "true", <<STOPPING, STOPPED>>)

\* process.exe() of a process that is gone raises; the exception leaves
\* restart_process ("exc")
restart_process(procs, os, n, graceful, outcome) ==
    IF n \notin DOMAIN procs THEN PoolResult(procs, os, "false", <<>>)
    ELSE IF procs[n].process = NoProc THEN PoolResult(procs, os, "false", <<>>)
    ELSE IF os[procs[n].process].state # "alive" THEN PoolResult(procs, os, "exc", <<>>)
    ELSE LET s == stop_process(procs, os, n, graceful)
             t == start_process(s.processes, s.osProcs, n, "exe", FALSE, EmptyDoc, outcome)
         IN  PoolResult(t.processes, t.osProcs, t.ret, s.trace \o t.trace)

RefreshSkipped(info, os) == info
\* the "更新状态" block of get_process_state: the stored status is rewritten
\* from the liveness probe whenever a handle is stored
Refresh(info, os) ==
    IF info.process = NoProc THEN info
    ELSE LET probe == is_running(os, info.process)
         IN  [info EXCEPT !.status = CASE probe = "yes" -> RUNNING
                                       [] probe = "no"  -> STOPPED
                                       [] OTHER         -> ERROR]

StatePidOfFirstSpawn(info) == IF info.process = NoProc THEN NoProc ELSE 1
\* pid=process_info.process.pid if process_info.process else None
StatePid(info) == info.process

\* returns None ("none") for a name the pool does not hold
get_process_state(procs, os, n) ==
    IF n \notin DOMAIN procs
    THEN [processes |-> procs, ret |-> "none", status |-> "none", pid |-> NoProc,
          trace |-> <<>>]
    ELSE LET info == Refresh(procs[n], os)
         IN  [processes |-> [procs EXCEPT ![n] = info], ret |-> "state",
              status |-> info.status, pid |-> StatePid(info),
              trace |-> IF procs[n].process = NoProc THEN <<>> ELSE <<info.status>>]

\* ------------------------------------------------ PythonPlugin (python)
\* A runtime state is (py, objs, workers): the PythonPlugin object of one
\* name, the capability objects and the worker threads created so far.
PyResult(py, os, ws, ret) == [py |-> py, objs |-> os, workers |-> ws, ret |-> ret]

\* load(): import the entry file; any failure sets ERROR
load(py, code) ==
    IF code = "missing"
    THEN [py |-> [py EXCEPT !.status = PY_ERROR], ret |-> "false"]
    ELSE [py |-> [py EXCEPT !.module = code, !.status = PY_LOADED], ret |-> "true"]

\* getattr(self.module, "Plugin", None) is not None
HasPluginClass(module) == module \notin {NoModule, "noclass"}

\* instantiate(config): load unless LOADED, then plugin_class(config=..., plugin_dir=...)
instantiate(py, os, n, config, code) ==
    LET l == IF py.status # PY_LOADED THEN load(py, code)
             ELSE [py |-> py, ret |-> "true"]
        final_config == Merge(DefaultConfig, config)
        os2 == Append(os, [owner |-> n, cfg |-> final_config, code |-> l.py.module,
                           stopped |-> FALSE])
    IN  IF l.ret = "false" THEN [py |-> l.py, objs |-> os, ret |-> "false"]
        ELSE IF ~HasPluginClass(l.py.module)
        THEN [py |-> [l.py EXCEPT !.status = PY_ERROR], objs |-> os, ret |-> "false"]
        ELSE [py |-> [l.py EXCEPT !.instance = Len(os2), !.status = PY_RUNNING],
              objs |-> os2, ret |-> "true"]

\* start(config) after _save_config: instantiate, then a worker thread for run()
PythonPlugin_start(py, os, ws, n, config, code, hasRun) ==
    LET i == instantiate(py, os, n, Merge(DefaultConfig, config), code)
        ws2 == Append(ws, [owner |-> n, obj |-> i.py.instance, alive |-> TRUE])
    IN  IF i.ret = "false" THEN PyResult(i.py, i.objs, ws, "false")
        ELSE IF hasRun
        THEN PyResult([i.py EXCEPT !.stop_event = FALSE, !.thread = Len(ws2)],
                      i.objs, ws2, "true")
        ELSE PyResult([i.py EXCEPT !.status = PY_RUNNING], i.objs, ws, "true")

\* the thread is alive: thread.is_alive()
is_alive(ws, t) == t # NoThread /\ ws[t].alive

\* the statements stop() executes, in order
PythonPlugin_stop_steps(py, ws, hasHooks) ==
    <<"stop_event.set">>
    \o (IF py.instance # NoInst /\ hasHooks THEN <<"instance.stop">> ELSE <<>>)
    \o (IF is_alive(ws, py.thread) THEN <<"thread.join">> ELSE <<>>)
    \o <<"status=LOADED">>

PythonPlugin_stop_waits(py, os, ws, hasHooks, joined) ==
    LET os2 == IF py.instance # NoInst /\ hasHooks
               THEN [os EXCEPT ![py.instance].stopped = TRUE] ELSE os
    IN  IF is_alive(ws, py.thread) /\ ~joined
        THEN PyResult([py EXCEPT !.stop_event = TRUE], os2, ws, "false")
        ELSE PyResult([py EXCEPT !.stop_event = TRUE, !.status = PY_LOADED], os2,
                      IF is_alive(ws, py.thread)
                      THEN [ws EXCEPT ![py.thread].alive = FALSE] ELSE ws, "true")
\* stop(): set the event, call the stop hook, join(timeout=5), status LOADED.
\* joined: the worker ends within the join; otherwise it is left running.
PythonPlugin_stop(py, os, ws, hasHooks, joined) ==
    LET os2 == IF py.instance # NoInst /\ hasHooks
               THEN [os EXCEPT ![py.instance].stopped = TRUE] ELSE os
        ws2 == IF is_alive(ws, py.thread) /\ joined
               THEN [ws EXCEPT ![py.thread].alive = FALSE] ELSE ws
    IN  PyResult([py EXCEPT !.stop_event = TRUE, !.status = PY_LOADED], os2, ws2, "true")

\* _run_plugin hands self.stop_event, the one Event made in __init__, to the
\* instance: this is the signal worker t polls
polled_event(ps, ws, t) == ps[ws[t].owner].stop_event

\* get_status()["status"]
PythonPlugin_get_status(py) == py.status

\* set_config(config) after _save_config: hand the document to the instance
PythonPlugin_set_config(py, os, hasHooks, config) ==
    IF py.instance # NoInst /\ hasHooks
    THEN [os EXCEPT ![py.instance].cfg = config] ELSE os

\* ------------------------------------------------------- config files
NoFile == [exists |-> FALSE, doc |-> EmptyDoc]
\* _save_config: json.dump(config) into config/<name>.json
save_config(d) == [exists |-> TRUE, doc |-> d]
\* get_config: the file when it exists, else manifest.default_config.copy()
get_config(f) == IF f.exists THEN f.doc ELSE DefaultConfig

\* ----------------------------------------------------------- log files
NoLog == [exists |-> FALSE, lines |-> <<>>]
\* `with open(process_info.log_file, 'a')` of start_process: creates the file
open_log(lf, n) == [lf EXCEPT ![n].exists = TRUE]
\* start_process got past the RUNNING check (it assigned STARTING), so it
\* opened the log file
OpenLog(lf, n, trace) ==
    IF \E i \in DOMAIN trace : trace[i] = STARTING THEN open_log(lf, n) ELSE lf

\* ------------------------------------------------------ PluginManager
\* The mutable state the manager operations read and write, as one record.
State ==
    [processes |-> processes, osProcs |-> osProcs, pyPlugins |-> pyPlugins,
     objs |-> objs, workers |-> workers, configFile |-> configFile]

MgrResult(s, ret, trace) == [s |-> s, ret |-> ret, trace |-> trace]

WithPool(s, r) == [s EXCEPT !.processes = r.processes, !.osProcs = r.osProcs]
WithPy(s, n, r) ==
    [s EXCEPT !.pyPlugins[n] = r.py, !.objs = r.objs, !.workers = r.workers]
Saved(s, n, d) == [s EXCEPT !.configFile[n] = save_config(d)]

\* BinaryPlugin.start: defaults updated with config, saved, passed as args/env
BinaryPlugin_start(s, n, config, outcome) ==
    LET final_config == Merge(DefaultConfig, config)
        s1 == Saved(s, n, final_config)
        r == start_process(s1.processes, s1.osProcs, n, "manifest", TRUE,
                           final_config, outcome)
    IN  MgrResult(WithPool(s1, r), r.ret, r.trace)

\* PythonPlugin.start up to and including _save_config, then the rest
PythonPlugin_start_saved(s, n, config) ==
    LET final_config == Merge(DefaultConfig, config)
        s1 == Saved(s, n, final_config)
        r == PythonPlugin_start(s1.pyPlugins[n], s1.objs, s1.workers, n,
                                final_config, codeUnit[n], plugins[n].hasRun)
    IN  MgrResult(WithPy(s1, n, r), r.ret, <<>>)

start_plugin(s, n, config, outcome) ==
    IF n \notin DOMAIN plugins THEN MgrResult(s, "false", <<>>)
    ELSE IF plugins[n].kind = "python" THEN PythonPlugin_start_saved(s, n, config)
    ELSE BinaryPlugin_start(s, n, config, outcome)

\* `if plugin.manifest.builtin: return False` of stop_plugin (BinaryPlugin branch)
StopRefused(n) == plugins[n].kind = "binary" /\ plugins[n].builtin

stop_plugin(s, n, quick) ==
    IF n \notin DOMAIN plugins THEN MgrResult(s, "false", <<>>)
    ELSE IF plugins[n].kind = "python"
    THEN LET r == PythonPlugin_stop(s.pyPlugins[n], s.objs, s.workers,
                                    plugins[n].hasHooks, quick)
         IN  MgrResult(WithPy(s, n, r), r.ret,
                       PythonPlugin_stop_steps(s.pyPlugins[n], s.workers,
                                               plugins[n].hasHooks))
    ELSE IF StopRefused(n) THEN MgrResult(s, "false", <<>>)
    ELSE LET r == stop_process(s.processes, s.osProcs, n, quick)
         IN  MgrResult(WithPool(s, r), r.ret, r.trace)

\* PythonPlugin.restart: config = get_config(); stop(); start(config)
PythonPlugin_restart(s, n, quick) ==
    LET config == get_config(s.configFile[n])
        r == PythonPlugin_stop(s.pyPlugins[n], s.objs, s.workers,
                               plugins[n].hasHooks, quick)
    IN  PythonPlugin_start_saved(WithPy(s, n, r), n, config)

restart_plugin(s, n, quick, outcome) ==
    IF n \notin DOMAIN plugins THEN MgrResult(s, "false", <<>>)
    ELSE IF plugins[n].kind = "python" THEN PythonPlugin_restart(s, n, quick)
    ELSE LET r == restart_process(s.processes, s.osProcs, n, quick, outcome)
         IN  MgrResult(WithPool(s, r), r.ret, r.trace)

\* PluginStatus.STOPPED if status["status"] == "loaded" else PluginStatus.RUNNING
ToPluginStatus(pyStatus) == IF pyStatus = PY_LOADED THEN STOPPED ELSE RUNNING

\* returns [s, ret, status, pid]: ret "none" is None, "state" a PluginState
get_plugin_status(s, n) ==
    IF n \notin DOMAIN plugins
    THEN [s |-> s, ret |-> "none", status |-> "none", pid |-> NoProc, trace |-> <<>>]
    ELSE IF plugins[n].kind = "python"
    THEN [s |-> s, ret |-> "state",
          status |-> ToPluginStatus(PythonPlugin_get_status(s.pyPlugins[n])),
          pid |-> NoProc, trace |-> <<>>]
    ELSE LET r == get_process_state(s.processes, s.osProcs, n)
         IN  [s |-> [s EXCEPT !.processes = r.processes], ret |-> r.ret,
              status |-> r.status, pid |-> r.pid, trace |-> r.trace]

\* BinaryPlugin.set_config: save, probe, restart when RUNNING; every exception
\* (state is None, process.exe() raising) is caught and yields False
BinaryPlugin_set_config(s, n, config, quick, outcome) ==
    LET s1 == Saved(s, n, config)
        st == get_process_state(s1.processes, s1.osProcs, n)
        s2 == [s1 EXCEPT !.processes = st.processes]
        r == restart_process(s2.processes, s2.osProcs, n, quick, outcome)
    IN  IF st.ret = "none" THEN MgrResult(s2, "false", st.trace)
        ELSE IF st.status = RUNNING
        THEN MgrResult(WithPool(s2, r), IF r.ret = "exc" THEN "false" ELSE r.ret,
                       st.trace \o r.trace)
        ELSE MgrResult(s2, "true", st.trace)

set_plugin_config(s, n, config, quick, outcome) ==
    IF n \notin DOMAIN plugins THEN MgrResult(s, "false", <<>>)
    ELSE IF plugins[n].kind = "python"
    THEN LET s1 == Saved(s, n, config)
         IN  MgrResult([s1 EXCEPT !.objs = PythonPlugin_set_config(
                            s1.pyPlugins[n], s1.objs, plugins[n].hasHooks, config)],
                       "true", <<>>)
    ELSE BinaryPlugin_set_config(s, n, config, quick, outcome)

get_plugin_config_default(s, n) == [ret |-> "doc", doc |-> DefaultConfig]
\* get_plugin_config: None ("none") for an unknown name, else plugin.get_config()
get_plugin_config(s, n) ==
    IF n \notin DOMAIN plugins THEN [ret |-> "none", doc |-> EmptyDoc]
    ELSE [ret |-> "doc", doc |-> get_config(s.configFile[n])]

\* start_plugin when _save_config raises (the file cannot be written):
\* BinaryPlugin.start has no handler, the exception leaves start_plugin
\* ("exc"); PythonPlugin.start catches it, sets ERROR and returns False
start_plugin_write_fails(s, n) ==
    IF n \notin DOMAIN plugins THEN MgrResult(s, "false", <<>>)
    ELSE IF plugins[n].kind = "python"
    THEN MgrResult([s EXCEPT !.pyPlugins[n].status = PY_ERROR], "false", <<>>)
    ELSE MgrResult(s, "exc", <<>>)

\* set_plugin_config when _save_config raises: both set_config methods catch
\* every exception and return False
set_plugin_config_write_fails(s, n) == MgrResult(s, "false", <<>>)

\* stop_plugin of a code-module plugin whose stop hook raises: the event is
\* set, the exception is caught, False is returned and the status is kept
stop_plugin_hook_raises(s, n) ==
    MgrResult([s EXCEPT !.pyPlugins[n].stop_event = TRUE], "false",
              <<"stop_event.set", "instance.stop">>)

\* Command names passed to execute_command: a public method of every plugin
\* object, the stop hook (an attribute only of objects that define the hooks)
\* and a name that is no attribute.
Commands == {"get_info", "stop", "nope"}

\* callable(getattr(self.instance, command, None))
IsCallable(command, hasHooks) ==
    \/ command = "get_info"
    \/ command = "stop" /\ hasHooks

\* the effect of method(**(args or {})) on the object: stop() marks it stopped
Invoke(os, inst, command) ==
    IF command = "stop" THEN [os EXCEPT ![inst].stopped = TRUE] ELSE os

\* PythonPlugin.execute_command(command, args=None)
PythonPlugin_execute_command(py, os, hasHooks, command) ==
    IF py.instance = NoInst THEN [objs |-> os, ret |-> "not_running"]
    ELSE IF IsCallable(command, hasHooks)
    THEN [objs |-> Invoke(os, py.instance, command), ret |-> "invoked"]
    ELSE [objs |-> os, ret |-> "not_found"]

BinaryCommandDispatched(s, n, command) ==
    MgrResult([s EXCEPT !.osProcs = [i \in DOMAIN s.osProcs |->
                   IF s.osProcs[i].owner = n
                   THEN [s.osProcs[i] EXCEPT !.signals = @ \o <<command>>]
                   ELSE s.osProcs[i]]],
              "invoked", <<>>)
\* the else branch of execute_command: binary plugins take no commands
BinaryCommand(s, n, command) == MgrResult(s, "not_supported", <<>>)

execute_command(s, n, command) ==
    IF n \notin DOMAIN plugins THEN MgrResult(s, "plugin_not_found", <<>>)
    ELSE IF plugins[n].kind = "python"
    THEN LET r == PythonPlugin_execute_command(s.pyPlugins[n], s.objs,
                                               plugins[n].hasHooks, command)
         IN  MgrResult([s EXCEPT !.objs = r.objs], r.ret, <<>>)
    ELSE BinaryCommand(s, n, command)

\* all_lines[i:] of Python for any integer i
SliceFrom(all_lines, i) ==
    LET len == Len(all_lines)
        start == IF i < 0 THEN (IF len + i < 0 THEN 0 ELSE len + i)
                 ELSE (IF i > len THEN len ELSE i)
    IN  SubSeq(all_lines, start + 1, len)

\* ProcessPool.get_process_logs: the joined lines, "" being <<>>
get_process_logs(procs, lf, n, lines) ==
    IF n \notin DOMAIN procs THEN <<>>
    ELSE IF ~lf[n].exists THEN <<>>
    ELSE SliceFrom(lf[n].lines, -lines)

\* get_plugin_logs: "" for an unknown name; PythonPlugin.get_logs returns a
\* fixed notice
get_plugin_logs(s, lf, n, lines) ==
    IF n \notin DOMAIN plugins THEN <<>>
    ELSE IF plugins[n].kind = "python" THEN <<"no process logs">>
    ELSE get_process_logs(s.processes, lf, n, lines)

\* get_all_statuses: {name: plugin.get_status()} over the table, i.e.
\* ProcessPool.get_process_state for a BinaryPlugin (None, "none", without a
\* ProcessInfo) and the dict of PythonPlugin.get_status for a PythonPlugin
get_all_statuses(s) ==
    [s |-> [s EXCEPT !.processes =
                [n \in DOMAIN s.processes |->
                    IF n \in DOMAIN plugins /\ plugins[n].kind = "binary"
                    THEN get_process_state(s.processes, s.osProcs, n).processes[n]
                    ELSE s.processes[n]]],
     all |-> [n \in DOMAIN plugins |->
                IF plugins[n].kind = "python"
                THEN [ret |-> "dict", status |-> PythonPlugin_get_status(s.pyPlugins[n])]
                ELSE LET r == get_process_state(s.processes, s.osProcs, n)
                     IN  [ret |-> r.ret, status |-> r.status]]]

\* ProcessPool.cleanup: stop_process for every name of the pool, in turn
RECURSIVE ProcessPool_cleanup(_, _, _, _)
ProcessPool_cleanup(procs, os, todo, quick) ==
    IF todo = {} THEN PoolResult(procs, os, "none", <<>>)
    ELSE LET n == CHOOSE x \in todo : TRUE
             r == stop_process(procs, os, n, quick)
             rest == ProcessPool_cleanup(r.processes, r.osProcs, todo \ {n}, quick)
         IN  PoolResult(rest.processes, rest.osProcs, "none", r.trace \o rest.trace)

\* PluginManager.cleanup: self.process_pool.cleanup() and nothing else
cleanup(s, quick) ==
    LET r == ProcessPool_cleanup(s.processes, s.osProcs, DOMAIN s.processes, quick)
    IN  MgrResult(WithPool(s, r), "none", r.trace)

\* ---------------------------------------------------------- discovery
\* _has_binary_plugin: has_manifest and (has_binary or not has_python)
has_binary_plugin(c) == c.manifest # "none" /\ (c.hasBin \/ ~c.hasPy)

\* _load_binary_plugin_from_dir: PluginManifest(**data) in a try block; every
\* failure is logged and the directory skipped
load_binary_plugin_from_dir(c) == IF c.manifest = "binary" THEN "binary" ELSE "skip"

\* _load_python_plugin_without_manifest: `entry_file = entry_file.name` makes
\* entry_file a str, so `entry_file.name` raises AttributeError, which no
\* caller up to PluginManager.__init__ handles
load_python_plugin_without_manifest(c) == "crash"

\* _load_python_plugin_from_dir: a manifest.yaml that builds a PythonPluginInfo
\* registers the plugin; otherwise (no manifest, or the try block failed)
\* auto-detection by glob("*.py"), which also matches __init__.py
load_python_plugin_from_dir(c) ==
    IF c.manifest = "python" THEN "python"
    ELSE IF c.hasPy THEN load_python_plugin_without_manifest(c)
    ELSE "skip"

\* the loop body of _load_from_dir for one directory
load_dir(type, c) ==
    IF type = "python" \/ (type = "binary" /\ ~has_binary_plugin(c))
    THEN load_python_plugin_from_dir(c)
    ELSE load_binary_plugin_from_dir(c)

\* the wrapper registered for a directory: BinaryPlugin(manifest, ...) or
\* PythonPlugin(info, ...), builtin from the root
Registered(kind, c) ==
    IF kind = "binary" THEN BinaryManifest(c.root = "builtin")
    ELSE PythonInfo(c.root = "builtin", FALSE, FALSE)

\* PythonPluginManager._load_from_dir: a PythonPlugin for every directory whose
\* manifest builds a PythonPluginInfo; every failure is caught
PythonPluginManager_plugins(ds) ==
    [n \in {m \in DOMAIN ds : ds[m].manifest = "python"} |-> NewPythonPlugin]

is_builtin_never(n) == FALSE
\* PluginManager.is_builtin
is_builtin(n) == n \in DOMAIN plugins /\ plugins[n].builtin

\* shutil.rmtree(Path("plugins") / name) when it exists
rmtree(ds, n) ==
    IF n \in DOMAIN ds /\ ds[n].root = "user"
    THEN [m \in DOMAIN ds \ {n} |-> ds[m]] ELSE ds
\* the directory plugins/<name> exists, with the config and entry file in it
InUserDir(ds, n) == n \in DOMAIN ds /\ ds[n].root = "user"

\* PythonPluginManager.reload_plugin: drop sys.modules entries, then load()
\* on the PythonPlugin object of PythonPluginManager.plugins
reload_plugin(managed, n, code) ==
    IF n \notin DOMAIN managed THEN [managed |-> managed, ret |-> "false"]
    ELSE LET l == load(managed[n], code)
         IN  [managed |-> [managed EXCEPT ![n] = l.py], ret |-> l.ret]

\* ------------------------------------------------------------- actions
Callers == {"c1", "c2"}
Idle == [c \in Callers |-> "idle"]
NoLocals == [c \in Callers |-> [name |-> "p1", process |-> NoProc, ret |-> "none"]]

\* The table after PluginManager.__init__ (_load_plugins): one wrapper per
\* discovered plugin; nothing is started, the process pool is empty.
Tables == UNION {[T -> Manifests] : T \in {{"p1"}}}

Init ==
    /\ plugins \in Tables
    /\ processes = [n \in {} |-> NewProcessInfo]
    /\ osProcs = <<>>
    /\ pyPlugins = [n \in {m \in DOMAIN plugins : plugins[m].kind = "python"}
                      |-> NewPythonPlugin]
    /\ objs = <<>>
    /\ workers = <<>>
    /\ configFile = [n \in Names |-> NoFile]
    /\ logFile = [n \in Names |-> NoLog]
    /\ pyManaged = [n \in {m \in DOMAIN plugins : plugins[m].kind = "python"}
                      |-> NewPythonPlugin]
    /\ dirs = [n \in DOMAIN plugins |-> DirOf(plugins[n])]
    /\ scan = ScanDone
    /\ codeUnit \in [{m \in DOMAIN plugins : plugins[m].kind = "python"} -> CodeUnits]
    /\ last = NoCall
    /\ pc = Idle
    /\ loc = NoLocals

Commit(s) ==
    /\ processes' = s.processes
    /\ osProcs' = s.osProcs
    /\ pyPlugins' = s.pyPlugins
    /\ objs' = s.objs
    /\ workers' = s.workers
    /\ configFile' = s.configFile

\* the status the wrapper holds before a call ("none": no ProcessInfo yet)
Stored(n) ==
    IF n \notin DOMAIN plugins THEN "absent"
    ELSE IF plugins[n].kind = "python" THEN pyPlugins[n].status
    ELSE IF n \in DOMAIN processes THEN processes[n].status
    ELSE "none"

\* calls that may create a process or an object need room for one more
Budget(n) ==
    /\ IsBinary(n) => Len(osProcs) < MaxSpawn
    /\ IsPython(n) => Len(objs) < MaxInst
Outcomes(n) == IF IsBinary(n) THEN {"ok", "raise", "exited"} ELSE {"ok"}

StartPlugin(n, config, outcome) ==
    /\ Budget(n)
    /\ LET r == start_plugin(State, n, config, outcome)
       IN  /\ Commit(r.s)
           /\ logFile' = OpenLog(logFile, n, r.trace)
           /\ last' = Call("start", n, config, r.ret, Stored(n), outcome, r.trace)
    /\ UNCHANGED <<plugins, pyManaged, dirs, scan, codeUnit, pc, loc>>

StopPlugin(n, quick) ==
    /\ LET r == stop_plugin(State, n, quick)
       IN  /\ Commit(r.s)
           /\ last' = Call("stop", n, EmptyDoc, r.ret, Stored(n), Bool(quick), r.trace)
    /\ UNCHANGED <<logFile, plugins, pyManaged, dirs, scan, codeUnit, pc, loc>>

RestartPlugin(n, quick, outcome) ==
    /\ Budget(n)
    /\ LET r == restart_plugin(State, n, quick, outcome)
       IN  /\ Commit(r.s)
           /\ logFile' = OpenLog(logFile, n, r.trace)
           /\ last' = Call("restart", n, EmptyDoc, r.ret, Stored(n), outcome, r.trace)
    /\ UNCHANGED <<plugins, pyManaged, dirs, scan, codeUnit, pc, loc>>

GetPluginStatus(n) ==
    /\ LET r == get_plugin_status(State, n)
       IN  /\ Commit(r.s)
           /\ last' = [Call("status", n, EmptyDoc, r.ret, Stored(n), "none", r.trace)
                          EXCEPT !.status = r.status, !.pid = r.pid]
    /\ UNCHANGED <<logFile, plugins, pyManaged, dirs, scan, codeUnit, pc, loc>>

SetPluginConfig(n, config, quick, outcome) ==
    /\ Budget(n)
    /\ LET r == set_plugin_config(State, n, config, quick, outcome)
       IN  /\ Commit(r.s)
           /\ logFile' = OpenLog(logFile, n, r.trace)
           /\ last' = Call("set_config", n, config, r.ret, Stored(n), outcome, r.trace)
    /\ UNCHANGED <<plugins, pyManaged, dirs, scan, codeUnit, pc, loc>>

ExecuteCommand(n, command) ==
    /\ LET r == execute_command(State, n, command)
       IN  /\ Commit(r.s)
           /\ last' = Call("exec", n, EmptyDoc, r.ret, Stored(n), command, r.trace)
    /\ UNCHANGED <<logFile, plugins, pyManaged, dirs, scan, codeUnit, pc, loc>>

GetPluginLogs(n, lines) ==
    /\ last' = [Call("logs", n, EmptyDoc, "text", Stored(n), "none", <<>>)
                   EXCEPT !.lines = lines,
                          !.out = get_plugin_logs(State, logFile, n, lines)]
    /\ UNCHANGED <<logFile, plugins, pyManaged, dirs, scan, processes, osProcs, pyPlugins, objs, workers,
                   configFile, codeUnit, pc, loc>>

GetPluginConfig(n) ==
    /\ LET r == get_plugin_config(State, n)
       IN  last' = Call("get_config", n, r.doc, r.ret, Stored(n), "none", <<>>)
    /\ UNCHANGED <<logFile, plugins, pyManaged, dirs, scan, processes, osProcs, pyPlugins, objs, workers,
                   configFile, codeUnit, pc, loc>>

StartPluginWriteFails(n) ==
    /\ LET r == start_plugin_write_fails(State, n)
       IN  /\ Commit(r.s)
           /\ last' = Call("start", n, EmptyDoc, r.ret, Stored(n), "write_fails", r.trace)
    /\ UNCHANGED <<logFile, plugins, pyManaged, dirs, scan, codeUnit, pc, loc>>

SetPluginConfigWriteFails(n, config) ==
    /\ LET r == set_plugin_config_write_fails(State, n)
       IN  /\ Commit(r.s)
           /\ last' = Call("set_config", n, config, r.ret, Stored(n), "write_fails",
                           r.trace)
    /\ UNCHANGED <<logFile, plugins, pyManaged, dirs, scan, codeUnit, pc, loc>>

StopPluginHookRaises(n) ==
    /\ IsPython(n) /\ plugins[n].hasHooks /\ pyPlugins[n].instance # NoInst
    /\ LET r == stop_plugin_hook_raises(State, n)
       IN  /\ Commit(r.s)
           /\ last' = Call("stop", n, EmptyDoc, r.ret, Stored(n), "hook_raises", r.trace)
    /\ UNCHANGED <<logFile, plugins, pyManaged, dirs, scan, codeUnit, pc, loc>>

\* One iteration of the loop of _load_from_dir in the current phase.
VisitDir(d) ==
    /\ scan.phase <= Len(Phases) /\ ~scan.crashed
    /\ d \in DOMAIN dirs /\ dirs[d].root = Phases[scan.phase].root
    /\ d \notin scan.seen
    /\ LET r == load_dir(Phases[scan.phase].type, dirs[d])
       IN  /\ scan' = [scan EXCEPT !.seen = @ \cup {d}, !.crashed = (r = "crash")]
           /\ plugins' = IF r \in {"binary", "python"}
                         THEN [n \in DOMAIN plugins \cup {d} |->
                                  IF n = d THEN Registered(r, dirs[d]) ELSE plugins[n]]
                         ELSE plugins
           /\ pyPlugins' = IF r = "python"
                           THEN [n \in DOMAIN pyPlugins \cup {d} |-> NewPythonPlugin]
                           ELSE pyPlugins
    /\ UNCHANGED <<processes, osProcs, objs, workers, configFile, codeUnit, last, pc,
                   loc, logFile, pyManaged, dirs>>

\* The loop of one _load_from_dir call is over: the next call begins.
NextPhase ==
    /\ scan.phase <= Len(Phases) /\ ~scan.crashed
    /\ \A d \in DOMAIN dirs : dirs[d].root = Phases[scan.phase].root => d \in scan.seen
    /\ scan' = [scan EXCEPT !.phase = @ + 1, !.seen = {}]
    /\ UNCHANGED <<plugins, processes, osProcs, pyPlugins, objs, workers, configFile,
                   codeUnit, last, pc, loc, logFile, pyManaged, dirs>>

\* DELETE /uninstall: refuse builtin plugins; otherwise stop_plugin (its
\* result is not looked at), remove plugins/<name> and drop the name from the
\* table. quick: the waits inside stop_plugin end in time.
Uninstall(n, quick) ==
    /\ IF is_builtin(n)
       THEN /\ last' = Call("uninstall", n, EmptyDoc, "refused", Stored(n), "none", <<>>)
            /\ UNCHANGED <<plugins, dirs, processes, osProcs, pyPlugins, objs, workers,
                           configFile, codeUnit>>
       ELSE LET r == stop_plugin(State, n, quick)
            IN  /\ processes' = r.s.processes
                /\ osProcs' = r.s.osProcs
                /\ pyPlugins' = r.s.pyPlugins
                /\ objs' = r.s.objs
                /\ workers' = r.s.workers
                /\ dirs' = rmtree(dirs, n)
                /\ configFile' = IF InUserDir(dirs, n)
                                 THEN [r.s.configFile EXCEPT ![n] = NoFile]
                                 ELSE r.s.configFile
                /\ codeUnit' = IF InUserDir(dirs, n) /\ n \in DOMAIN codeUnit
                               THEN [codeUnit EXCEPT ![n] = "missing"] ELSE codeUnit
                /\ plugins' = [m \in DOMAIN plugins \ {n} |-> plugins[m]]
                /\ last' = Call("uninstall", n, EmptyDoc, "success", Stored(n), "none",
                                r.trace)
    /\ UNCHANGED <<pc, loc, logFile, pyManaged, scan>>

GetAllStatuses ==
    /\ LET r == get_all_statuses(State)
       IN  /\ Commit(r.s)
           /\ last' = [NoCall EXCEPT !.op = "all_statuses", !.ret = "mapping",
                                     !.all = r.all]
    /\ UNCHANGED <<logFile, plugins, pyManaged, dirs, scan, codeUnit, pc, loc>>

\* plugin_manager.cleanup() at shutdown, or on the replaced manager
Cleanup(quick) ==
    /\ LET r == cleanup(State, quick)
       IN  /\ Commit(r.s)
           /\ last' = [NoCall EXCEPT !.op = "cleanup", !.env = Bool(quick),
                                     !.trace = r.trace]
    /\ UNCHANGED <<logFile, plugins, pyManaged, dirs, scan, codeUnit, pc, loc>>

\* The environment: the entry file of a plugin is replaced by a new version.
CodeChanges(n) ==
    /\ n \in DOMAIN codeUnit /\ codeUnit[n] = "v1"
    /\ codeUnit' = [codeUnit EXCEPT ![n] = "v2"]
    /\ last' = [NoCall EXCEPT !.op = "code_changed", !.name = n]
    /\ UNCHANGED <<plugins, processes, osProcs, pyPlugins, objs, workers, configFile,
                   pc, loc, logFile, pyManaged, dirs, scan>>

ReloadPlugin(n) ==
    /\ LET r == reload_plugin(pyManaged, n,
                              IF n \in DOMAIN codeUnit THEN codeUnit[n] ELSE "missing")
       IN  /\ pyManaged' = r.managed
           /\ last' = Call("reload", n, EmptyDoc, r.ret, Stored(n), "none", <<>>)
    /\ UNCHANGED <<plugins, processes, osProcs, pyPlugins, objs, workers, configFile,
                   codeUnit, pc, loc, logFile, dirs, scan>>

\* The environment: a running plugin process writes a line to stdout/stderr,
\* which start_process redirected to the log file.
ProcessWrites(pid, line) ==
    /\ osProcs[pid].state = "alive"
    /\ Len(logFile[osProcs[pid].owner].lines) < MaxLines
    /\ logFile' = [logFile EXCEPT ![osProcs[pid].owner].lines = Append(@, line)]
    /\ last' = [NoCall EXCEPT !.op = "wrote", !.name = osProcs[pid].owner, !.pid = pid]
    /\ UNCHANGED <<plugins, pyManaged, dirs, scan, processes, osProcs, pyPlugins, objs, workers, configFile,
                   codeUnit, pc, loc>>

\* The environment: a spawned process exits or is killed from outside.
ProcessDies(pid) ==
    /\ osProcs[pid].state = "alive"
    /\ osProcs' = [osProcs EXCEPT ![pid].state = "dead"]
    /\ last' = [NoCall EXCEPT !.op = "killed", !.name = osProcs[pid].owner, !.pid = pid]
    /\ UNCHANGED <<logFile, plugins, pyManaged, dirs, scan, processes, pyPlugins, objs, workers, configFile,
                   codeUnit, pc, loc>>

\* The environment: probes of this process start to raise.
ProbeFails(pid) ==
    /\ osProcs[pid].state = "alive"
    /\ osProcs' = [osProcs EXCEPT ![pid].state = "fault"]
    /\ last' = [NoCall EXCEPT !.op = "fault", !.name = osProcs[pid].owner, !.pid = pid]
    /\ UNCHANGED <<logFile, plugins, pyManaged, dirs, scan, processes, pyPlugins, objs, workers, configFile,
                   codeUnit, pc, loc>>

\* _run_plugin: run() returns (or raises); finally: status = LOADED
WorkerExits(t) ==
    /\ workers[t].alive
    /\ workers' = [workers EXCEPT ![t].alive = FALSE]
    /\ pyPlugins' = [pyPlugins EXCEPT ![workers[t].owner].status = PY_LOADED]
    /\ last' = [NoCall EXCEPT !.op = "worker_exit", !.name = workers[t].owner]
    /\ UNCHANGED <<logFile, plugins, pyManaged, dirs, scan, processes, osProcs, objs, configFile, codeUnit, pc, loc>>

Next ==
    \/ \E n \in Names, config \in StartOverrides :
          \E outcome \in Outcomes(n) : StartPlugin(n, config, outcome)
    \/ \E n \in Names, quick \in BOOLEAN : StopPlugin(n, quick)
    \/ \E n \in Names, quick \in BOOLEAN :
          \E outcome \in Outcomes(n) : RestartPlugin(n, quick, outcome)
    \/ \E n \in Names : GetPluginStatus(n)
    \/ \E n \in Names, config \in ConfigInputs, quick \in BOOLEAN :
          \E outcome \in Outcomes(n) : SetPluginConfig(n, config, quick, outcome)
    \/ \E pid \in DOMAIN osProcs : ProcessDies(pid)
    \/ \E pid \in DOMAIN osProcs : ProbeFails(pid)
    \/ \E t \in DOMAIN workers : WorkerExits(t)

Spec == Init /\ [][Next]_vars

\* ------------------------------------------------------ custom commands
\* Plugins are started and stopped, their processes and workers end, and
\* commands are sent to them in every status.
NextCmd ==
    \/ \E n \in Names : \E outcome \in Outcomes(n) : StartPlugin(n, EmptyDoc, outcome)
    \/ \E n \in Names, quick \in BOOLEAN : StopPlugin(n, quick)
    \/ \E n \in Names : GetPluginStatus(n)
    \/ \E n \in Names, command \in Commands : ExecuteCommand(n, command)
    \/ \E pid \in DOMAIN osProcs : ProcessDies(pid)
    \/ \E pid \in DOMAIN osProcs : ProbeFails(pid)
    \/ \E t \in DOMAIN workers : WorkerExits(t)

SpecCmd == Init /\ [][NextCmd]_vars

\* ------------------------------------------------------- backend faults
\* The lifecycle operations with every backend failure: failed spawns, dead
\* and unprobeable processes, config files that cannot be written, a raising
\* stop hook.
NextFault ==
    \/ \E n \in Names : \E outcome \in Outcomes(n) : StartPlugin(n, EmptyDoc, outcome)
    \/ \E n \in Names : StartPluginWriteFails(n)
    \/ \E n \in Names : StopPlugin(n, TRUE)
    \/ \E n \in Names : StopPluginHookRaises(n)
    \/ \E n \in Names : \E outcome \in Outcomes(n) : RestartPlugin(n, TRUE, outcome)
    \/ \E n \in Names : GetPluginStatus(n)
    \/ \E n \in Names, config \in ConfigInputs : SetPluginConfigWriteFails(n, config)
    \/ \E pid \in DOMAIN osProcs : ProcessDies(pid)
    \/ \E pid \in DOMAIN osProcs : ProbeFails(pid)

SpecFault == Init /\ [][NextFault]_vars

\* --------------------------------------------------------- unknown names
\* Registered plugins are started and stopped; every operation is called with
\* the names that are not in the table.
Unknown == Names \ DOMAIN plugins

NextNotFound ==
    \/ \E n \in Names : \E outcome \in Outcomes(n) : StartPlugin(n, EmptyDoc, outcome)
    \/ \E n \in Names : StopPlugin(n, TRUE)
    \/ \E n \in Unknown : \E outcome \in {"ok"} : RestartPlugin(n, TRUE, outcome)
    \/ \E n \in Unknown : GetPluginStatus(n)
    \/ \E n \in Names, config \in ConfigInputs :
          \E outcome \in Outcomes(n) : SetPluginConfig(n, config, TRUE, outcome)
    \/ \E n \in Unknown : GetPluginConfig(n)
    \/ \E n \in Unknown, lines \in {MaxLines} : GetPluginLogs(n, lines)
    \/ \E n \in Unknown, command \in Commands : ExecuteCommand(n, command)
    \/ \E pid \in DOMAIN osProcs : ProcessDies(pid)

SpecNotFound == Init /\ [][NextNotFound]_vars

\* ------------------------------------------------------------ discovery
\* PluginManager.__init__ after the PythonPluginManager has been built, before
\* _load_plugins: an empty table over any two directories.
DirNames == Names
InitDiscovery ==
    /\ dirs \in [DirNames -> Contents]
    /\ plugins = [n \in {} |-> BinaryManifest(FALSE)]
    /\ scan = ScanStart
    /\ processes = [n \in {} |-> NewProcessInfo]
    /\ osProcs = <<>>
    /\ pyPlugins = [n \in {} |-> NewPythonPlugin]
    /\ pyManaged = PythonPluginManager_plugins(dirs)
    /\ objs = <<>>
    /\ workers = <<>>
    /\ configFile = [n \in Names |-> NoFile]
    /\ logFile = [n \in Names |-> NoLog]
    /\ codeUnit = [n \in {} |-> "missing"]
    /\ last = NoCall
    /\ pc = Idle
    /\ loc = NoLocals

NextDiscovery ==
    \/ \E d \in DirNames : VisitDir(d)
    \/ NextPhase

SpecDiscovery == InitDiscovery /\ [][NextDiscovery]_vars

\* ------------------------------------------------------------ uninstall
NextUninstall ==
    \/ \E n \in Names : \E outcome \in Outcomes(n) : StartPlugin(n, EmptyDoc, outcome)
    \/ \E n \in Names : StopPlugin(n, TRUE)
    \/ \E n \in Names, config \in ConfigInputs :
          \E outcome \in Outcomes(n) : SetPluginConfig(n, config, TRUE, outcome)
    \/ \E n \in Names, quick \in BOOLEAN : Uninstall(n, quick)

SpecUninstall == Init /\ [][NextUninstall]_vars

\* ---------------------------------------------------------- all statuses
NextAll ==
    \/ \E n \in Names : \E outcome \in Outcomes(n) : StartPlugin(n, EmptyDoc, outcome)
    \/ \E n \in Names, quick \in BOOLEAN : StopPlugin(n, quick)
    \/ \E n \in Names : GetPluginStatus(n)
    \/ GetAllStatuses
    \/ \E pid \in DOMAIN osProcs : ProcessDies(pid)
    \/ \E pid \in DOMAIN osProcs : ProbeFails(pid)
    \/ \E t \in DOMAIN workers : WorkerExits(t)

SpecAll == Init /\ [][NextAll]_vars

\* -------------------------------------------------------------- cleanup
NextCleanup ==
    \/ \E n \in Names : \E outcome \in Outcomes(n) : StartPlugin(n, EmptyDoc, outcome)
    \/ \E n \in Names, quick \in BOOLEAN : StopPlugin(n, quick)
    \/ \E n \in Names : GetPluginStatus(n)
    \/ \E quick \in BOOLEAN : Cleanup(quick)
    \/ \E pid \in DOMAIN osProcs : ProcessDies(pid)
    \/ \E pid \in DOMAIN osProcs : ProbeFails(pid)
    \/ \E t \in DOMAIN workers : WorkerExits(t)

SpecCleanup == Init /\ [][NextCleanup]_vars

\* --------------------------------------------------------------- reload
NextReload ==
    \/ \E n \in Names : \E outcome \in Outcomes(n) : StartPlugin(n, EmptyDoc, outcome)
    \/ \E n \in Names, quick \in BOOLEAN : StopPlugin(n, quick)
    \/ \E n \in Names : CodeChanges(n)
    \/ \E n \in Names : ReloadPlugin(n)
    \/ \E t \in DOMAIN workers : WorkerExits(t)

SpecReload == Init /\ [][NextReload]_vars

\* ------------------------------------------------------- reading the log
\* Plugins are started and stopped, their processes write lines, and the log
\* is read with every line count.
NextLogs ==
    \/ \E n \in Names : \E outcome \in Outcomes(n) : StartPlugin(n, EmptyDoc, outcome)
    \/ \E n \in Names : StopPlugin(n, TRUE)
    \/ \E pid \in DOMAIN osProcs, line \in LogLines : ProcessWrites(pid, line)
    \/ \E n \in Names, lines \in LineCounts : GetPluginLogs(n, lines)

SpecLogs == Init /\ [][NextLogs]_vars

\* --------------------------------------- overlapping start_plugin calls
\* Each caller runs start_plugin(name) with config=None once; a step is one
\* statement group of the source, so every interleaving of two calls on the
\* shared ProcessInfo / PythonPlugin object is a behaviour.
Goto(c, label) == pc' = [pc EXCEPT ![c] = label]
Return(c, ret) ==
    /\ pc' = [pc EXCEPT ![c] = "done"]
    /\ loc' = [loc EXCEPT ![c].ret = ret]

\* start_plugin: get_plugin(name); BinaryPlugin.start / PythonPlugin.start up
\* to _save_config(final_config)
CallStart(c, n) ==
    /\ pc[c] = "idle"
    /\ IF n \notin DOMAIN plugins
       THEN /\ pc' = [pc EXCEPT ![c] = "done"]
            /\ loc' = [loc EXCEPT ![c].name = n, ![c].ret = "false"]
            /\ UNCHANGED configFile
       ELSE /\ pc' = [pc EXCEPT ![c] = IF plugins[n].kind = "binary" THEN "check"
                                       ELSE "instantiate"]
            /\ loc' = [loc EXCEPT ![c].name = n]
            /\ configFile' = [configFile EXCEPT ![n] = save_config(DefaultConfig)]
    /\ UNCHANGED <<logFile, plugins, pyManaged, dirs, scan, processes, osProcs, pyPlugins, objs, workers, codeUnit, last>>

\* start_process: add_process when missing, then the RUNNING check
SpCheck(c) ==
    /\ pc[c] = "check"
    /\ LET n == loc[c].name
           p1 == add_process(processes, n)
       IN  /\ processes' = p1
           /\ IF AlreadyRunning(p1[n]) THEN Return(c, "false")
              ELSE Goto(c, "starting") /\ UNCHANGED loc
    /\ UNCHANGED <<logFile, plugins, pyManaged, dirs, scan, osProcs, pyPlugins, objs, workers, configFile, codeUnit, last>>

\* process_info.status = PluginStatus.STARTING
SpStarting(c) ==
    /\ pc[c] = "starting"
    /\ processes' = [processes EXCEPT ![loc[c].name].status = STARTING]
    /\ Goto(c, "popen")
    /\ UNCHANGED <<logFile, plugins, pyManaged, dirs, scan, osProcs, pyPlugins, objs, workers, configFile, codeUnit,
                   last, loc>>

\* with open(log_file): process = psutil.Popen(...); a raise goes to `except`
SpPopen(c, outcome) ==
    /\ pc[c] = "popen"
    /\ Len(osProcs) < MaxSpawn
    /\ LET n == loc[c].name
           os2 == Popen(osProcs, n, "manifest", TRUE, DefaultConfig,
                        IF outcome = "ok" THEN "alive" ELSE "dead")
       IN  IF outcome = "raise"
           THEN /\ processes' = [processes EXCEPT ![n].status = ERROR]
                /\ Return(c, "false")
                /\ UNCHANGED osProcs
           ELSE /\ osProcs' = os2
                /\ pc' = [pc EXCEPT ![c] = "assign"]
                /\ loc' = [loc EXCEPT ![c].process = Len(os2)]
                /\ UNCHANGED processes
    /\ logFile' = open_log(logFile, loc[c].name)
    /\ UNCHANGED <<plugins, pyManaged, dirs, scan, pyPlugins, objs, workers, configFile, codeUnit, last>>

\* process_info.process = process; process_info.start_time = datetime.now()
SpAssign(c) ==
    /\ pc[c] = "assign"
    /\ processes' = [processes EXCEPT ![loc[c].name].process = loc[c].process,
                                      ![loc[c].name].start_time = TRUE]
    /\ Goto(c, "confirm")
    /\ UNCHANGED <<logFile, plugins, pyManaged, dirs, scan, osProcs, pyPlugins, objs, workers, configFile, codeUnit,
                   last, loc>>

\* if process.is_running(): RUNNING, True; else (or on a raise): ERROR, False
SpConfirm(c) ==
    /\ pc[c] = "confirm"
    /\ LET ok == is_running(osProcs, loc[c].process) = "yes"
       IN  /\ processes' = [processes EXCEPT
                              ![loc[c].name].status = IF ok THEN RUNNING ELSE ERROR]
           /\ Return(c, Bool(ok))
    /\ UNCHANGED <<logFile, plugins, pyManaged, dirs, scan, osProcs, pyPlugins, objs, workers, configFile, codeUnit, last>>

\* if not self.instantiate(final_config): return False
PyInstantiate(c) ==
    /\ pc[c] = "instantiate"
    /\ Len(objs) < MaxInst
    /\ LET n == loc[c].name
           i == instantiate(pyPlugins[n], objs, n, DefaultConfig, codeUnit[n])
       IN  /\ pyPlugins' = [pyPlugins EXCEPT ![n] = i.py]
           /\ objs' = i.objs
           /\ IF i.ret = "false" THEN Return(c, "false")
              ELSE Goto(c, "thread") /\ UNCHANGED loc
    /\ UNCHANGED <<logFile, plugins, pyManaged, dirs, scan, processes, osProcs, workers, configFile, codeUnit, last>>

\* the run()/no-run() branch of PythonPlugin.start; return True
PyThread(c) ==
    /\ pc[c] = "thread"
    /\ LET n == loc[c].name
           ws2 == Append(workers, [owner |-> n, obj |-> pyPlugins[n].instance,
                                   alive |-> TRUE])
       IN  IF plugins[n].hasRun
           THEN /\ workers' = ws2
                /\ pyPlugins' = [pyPlugins EXCEPT ![n].stop_event = FALSE,
                                                  ![n].thread = Len(ws2)]
           ELSE /\ pyPlugins' = [pyPlugins EXCEPT ![n].status = PY_RUNNING]
                /\ UNCHANGED workers
    /\ Return(c, "true")
    /\ UNCHANGED <<logFile, plugins, pyManaged, dirs, scan, processes, osProcs, objs, configFile, codeUnit, last>>

NextConc ==
    \/ \E c \in Callers, n \in Names : CallStart(c, n)
    \/ \E c \in Callers : SpCheck(c)
    \/ \E c \in Callers : SpStarting(c)
    \/ \E c \in Callers, outcome \in {"ok", "raise", "exited"} : SpPopen(c, outcome)
    \/ \E c \in Callers : SpAssign(c)
    \/ \E c \in Callers : SpConfirm(c)
    \/ \E c \in Callers : PyInstantiate(c)
    \/ \E c \in Callers : PyThread(c)

SpecConc == Init /\ [][NextConc]_vars

\* -------------------------------------------------------------- claims
\* everything a manager call can change, apart from the record of the call
Backend == <<processes, osProcs, pyPlugins, objs, workers, configFile>>

\* the step is the manager call `op` on name n
Called(op, n) == last'.op = op /\ last'.name = n

\* pids of the live OS processes spawned for n
LiveProcs(n) == {pid \in DOMAIN osProcs : osProcs[pid].owner = n /\ osProcs[pid].state = "alive"}

\* C1: for every name in the plugin table, after any sequence of manager
\* operations (also none), status(name) returns a state whose status is one of
\* the five values, never None.
C1_StatusAlwaysAState ==
    (last.op = "status" /\ last.name \in DOMAIN plugins)
        => (last.ret = "state" /\ last.status \in PluginStatus)

\* C2: start(name) on a process-backed plugin whose status is Running returns
\* false, spawns no process and leaves the stored handle (hence pid) unchanged.
C2_StartOnRunningProcess ==
    [][\A n \in DOMAIN plugins :
          (Called("start", n) /\ IsBinary(n) /\ Stored(n) = RUNNING)
              => /\ last'.ret = "false"
                 /\ osProcs' = osProcs
                 /\ processes'[n] = processes[n]]_vars

C2_Witness ==
    /\ last.op = "start" /\ IsBinary(last.name) /\ last.pre = RUNNING
    /\ last.ret = "false"
    /\ processes[last.name].status = RUNNING
    /\ LiveProcs(last.name) = {processes[last.name].process}

\* C3: start(name) on a code-module plugin whose status is Running returns
\* false and creates neither a second capability object nor a second worker.
C3_StartOnRunningModule ==
    [][\A n \in DOMAIN plugins :
          (Called("start", n) /\ IsPython(n) /\ Stored(n) = PY_RUNNING
             /\ pyPlugins[n].instance # NoInst)
              => /\ last'.ret = "false"
                 /\ objs' = objs /\ workers' = workers
                 /\ pyPlugins'[n] = pyPlugins[n]]_vars

\* C4: when two overlapping start calls for one name have both returned (one
\* of them with true), exactly one backend resource exists: one live OS
\* process, or one capability object with at most one worker.
C4_OverlappingStartsOneResource ==
    LET n == loc["c1"].name
    IN  (/\ \A c \in Callers : pc[c] = "done" /\ loc[c].name = n
         /\ n \in DOMAIN plugins
         /\ \E c \in Callers : loc[c].ret = "true")
        => /\ IsBinary(n) => Cardinality(LiveProcs(n)) = 1
           /\ IsPython(n) =>
                /\ Cardinality({i \in DOMAIN objs : objs[i].owner = n}) = 1
                /\ Cardinality({t \in DOMAIN workers : workers[t].owner = n}) <= 1

\* the plugin is not running: a process-backed one Stopped or never started,
\* a code-module one Unloaded
NotRunning(n) ==
    \/ IsBinary(n) /\ Stored(n) \in {"none", STOPPED}
    \/ IsPython(n) /\ Stored(n) = PY_UNLOADED

\* C5: stop(name) on a plugin that is not running (and not protected) returns
\* true and changes no state.
C5_StopWhenNotRunning ==
    [][\A n \in DOMAIN plugins :
          (Called("stop", n) /\ NotRunning(n) /\ ~plugins[n].builtin)
              => (last'.ret = "true" /\ UNCHANGED Backend)]_vars

\* C6: stop(name) on a protected plugin of either kind returns false and
\* leaves status and backend resources unchanged (no signal, no hook).
C6_StopProtected ==
    [][\A n \in DOMAIN plugins :
          (Called("stop", n) /\ plugins[n].builtin)
              => (last'.ret = "false" /\ UNCHANGED Backend)]_vars

\* C7: restart(name) on a protected plugin returns false; neither its stop
\* step nor its start step is carried out.
C7_RestartProtected ==
    [][\A n \in DOMAIN plugins :
          (Called("restart", n) /\ plugins[n].builtin)
              => (last'.ret = "false" /\ UNCHANGED Backend)]_vars

\* C8: for a process-backed plugin the process handle is present if and only
\* if the stored status is Running or Stopping.
C8_HandleIffRunning ==
    \A n \in DOMAIN processes :
        (processes[n].process # NoProc) <=> (processes[n].status \in {RUNNING, STOPPING})

\* the handle stored for n names a process that is gone
HandleDead(n) ==
    /\ n \in DOMAIN processes
    /\ processes[n].process # NoProc
    /\ osProcs[processes[n].process].state = "dead"

\* C9: when the process of a Running process-backed plugin has been killed
\* from outside, the next status(name) reports Stopped.
C9_StatusAfterExternalKill ==
    (last.op = "status" /\ IsBinary(last.name) /\ last.pre = RUNNING
       /\ HandleDead(last.name))
        => (last.ret = "state" /\ last.status = STOPPED)

C9_Witness ==
    /\ last.op = "status" /\ IsBinary(last.name) /\ last.pre = RUNNING
    /\ HandleDead(last.name)
    /\ last.status = STOPPED
    /\ processes[last.name].status = STOPPED

\* the plugin is Running and its backend resource is live
TrulyRunning(n) ==
    \/ IsBinary(n) /\ Stored(n) = RUNNING /\ processes[n].process \in LiveProcs(n)
    \/ IsPython(n) /\ Stored(n) = PY_RUNNING /\ pyPlugins[n].instance # NoInst

\* document d reached the launch: every key of d has d's value in cfg
Sees(cfg, d) == \A k \in Keys : d[k] # 0 => cfg[k] = d[k]

\* C10: setConfig(name, d) on a Running plugin (the spawn succeeding) returns
\* true after exactly one restart cycle Running, Stopping, Stopped, Starting,
\* Running, and the newly started instance is launched from d.
C10_SetConfigRestarts ==
    [][\A n \in DOMAIN plugins :
          (Called("set_config", n) /\ TrulyRunning(n) /\ last'.env = "ok")
              => /\ last'.ret = "true"
                 /\ IsBinary(n) =>
                      /\ last'.trace = <<RUNNING, STOPPING, STOPPED, STARTING, RUNNING>>
                      /\ processes'[n].status = RUNNING
                      /\ processes'[n].process \notin {NoProc, processes[n].process}
                      /\ osProcs'[processes'[n].process].args
                      /\ Sees(osProcs'[processes'[n].process].cfg, last'.arg)
                 /\ IsPython(n) =>
                      /\ pyPlugins'[n].status = PY_RUNNING
                      /\ pyPlugins'[n].instance \notin {NoInst, pyPlugins[n].instance}
                      /\ Sees(objs'[pyPlugins'[n].instance].cfg, last'.arg)]_vars

\* C11: start(name, override) persists the document obtained by merging
\* override over the currently persisted configuration (over the manifest
\* defaults only when nothing is persisted), so a key written by an earlier
\* setConfig and not mentioned in override keeps its value after start.
C11_StartMergesOverPersisted ==
    [][\A n \in DOMAIN plugins :
          Called("start", n)
              => configFile'[n] =
                     save_config(Merge(get_config(configFile[n]), last'.arg))]_vars

\* C12: after setConfig(name, d) has returned true, getConfig(name) returns
\* exactly d until a later setConfig or start on that name: the call itself
\* leaves d on disk, and every other step (stop, restart, status, the
\* environment) leaves what getConfig returns unchanged.
C12_ConfigRoundTrip ==
    [][\A n \in DOMAIN plugins :
          /\ (Called("set_config", n) /\ last'.ret = "true")
                => get_config(configFile'[n]) = last'.arg
          /\ ~(Called("set_config", n) \/ Called("start", n))
                => get_config(configFile'[n]) = get_config(configFile[n])]_vars

\* C13: setConfig(name, d) on a plugin whose status is not Running persists d,
\* returns true and starts or stops nothing: status and backend handles are
\* the same before and after the call.
C13_SetConfigNotRunning ==
    [][\A n \in DOMAIN plugins :
          (Called("set_config", n) /\ Stored(n) # RUNNING)
              => /\ last'.ret = "true"
                 /\ configFile'[n] = save_config(last'.arg)
                 /\ Stored(n)' = Stored(n)
                 /\ UNCHANGED <<processes, osProcs, pyPlugins, workers>>]_vars

\* C14: restart(name) on a process-backed plugin (not protected, the spawn
\* succeeding) returns true and ends Running with a live process launched from
\* the manifest path, also when the plugin is Stopped or never started (no
\* handle) or when its process has already exited or been killed.
C14_RestartFromAnyState ==
    [][\A n \in DOMAIN plugins :
          (Called("restart", n) /\ IsBinary(n) /\ ~plugins[n].builtin
             /\ last'.env = "ok")
              => /\ last'.ret = "true"
                 /\ n \in DOMAIN processes'
                 /\ processes'[n].status = RUNNING
                 /\ processes'[n].process # NoProc
                 /\ osProcs'[processes'[n].process].state = "alive"]_vars

\* caller c is between the first and the last step of a mutating call
InCall(c) == pc[c] \notin {"idle", "done"}

\* C15: mutating manager operations on one plugin name are mutually
\* exclusive: in no reachable state are two calls for the same name both
\* between their first and last step.
C15_MutuallyExclusive ==
    \A c \in Callers, d \in Callers :
        (c # d /\ InCall(c) /\ InCall(d)) => loc[c].name # loc[d].name

\* C16: while a code-module plugin is in Error after a failed load or
\* instantiation, it stays in the table and status(name) reports Error.
C16_LoadFailureReportsError ==
    (last.op = "status" /\ IsPython(last.name)
       /\ pyPlugins[last.name].status = PY_ERROR)
        => (last.ret = "state" /\ last.status = ERROR)

\* the code-module plugin has no live instance: it was never started, or the
\* call before this one stopped it
NoLiveInstance(n) ==
    \/ pyPlugins[n].instance = NoInst
    \/ last.op = "stop" /\ last.name = n /\ last.ret = "true"

\* C17: executeCommand on a code-module plugin that has no live instance
\* (never started, or stopped) returns the PluginNotRunning error and invokes
\* no method on any plugin object.
C17_CommandNeedsLiveInstance ==
    [][\A n \in DOMAIN plugins :
          (Called("exec", n) /\ IsPython(n) /\ NoLiveInstance(n))
              => (last'.ret = "not_running" /\ UNCHANGED Backend)]_vars

\* names of lifecycle methods of a plugin object
LifecycleNames == {"run", "stop", "set_stop_event", "set_config"}

\* C18: executeCommand with the name of a lifecycle method that is a callable
\* attribute of the live plugin object returns CommandNotFound and invokes
\* nothing.
C18_CommandAllowPattern ==
    [][\A n \in DOMAIN plugins :
          (Called("exec", n) /\ IsPython(n) /\ pyPlugins[n].instance # NoInst
             /\ last'.env \in LifecycleNames
             /\ IsCallable(last'.env, plugins[n].hasHooks))
              => (last'.ret = "not_found" /\ UNCHANGED Backend)]_vars

\* C19: executeCommand on a process-backed plugin returns the "not supported"
\* error for every command in every status and changes no state.
C19_BinaryCommandNotSupported ==
    [][\A n \in DOMAIN plugins :
          (Called("exec", n) /\ IsBinary(n))
              => (last'.ret = "not_supported" /\ UNCHANGED Backend
                    /\ UNCHANGED logFile)]_vars

C19_Witness ==
    /\ last.op = "exec" /\ IsBinary(last.name) /\ last.env = "stop"
    /\ last.ret = "not_supported"
    /\ last.pre = RUNNING
    /\ processes[last.name].process \in LiveProcs(last.name)
    /\ osProcs[processes[last.name].process].signals = <<>>

\* the last k lines of the log file of n, none when the file does not exist
LastLines(n, k) ==
    IF ~logFile[n].exists THEN <<>>
    ELSE LET L == Len(logFile[n].lines)
             m == IF k < L THEN k ELSE L
         IN  [i \in 1 .. m |-> logFile[n].lines[L - m + i]]

\* C20: getLogs(name, N) on a process-backed plugin returns the last
\* min(N, L) lines of its log file of L lines, in order, for every N >= 0
\* (nothing for N = 0), and the empty string when no log file exists.
C20_LogsLastLines ==
    [][\A n \in DOMAIN plugins :
          (Called("logs", n) /\ IsBinary(n) /\ last'.lines >= 0)
              => last'.out = LastLines(n, last'.lines)]_vars

\* the stored handle of n, NoProc when the pool does not hold n
Handle(procs, n) == IF n \in DOMAIN procs THEN procs[n].process ELSE NoProc

\* C25: after start(name) of a process-backed plugin returns true, and until
\* the next stop, restart or start (or restarting setConfig) on that name,
\* status(name).pid is the pid of the process this start spawned: a true start
\* stores the handle of the process it spawned, status reports the stored
\* handle's pid and keeps it, and the environment does not change the handle.
C25_PidOfSpawnedProcess ==
    [][\A n \in DOMAIN plugins : IsBinary(n) =>
          /\ (Called("start", n) /\ last'.ret = "true")
                => /\ Len(osProcs') = Len(osProcs) + 1
                   /\ osProcs'[Len(osProcs')].owner = n
                   /\ processes'[n].process = Len(osProcs')
          /\ Called("status", n)
                => /\ last'.pid = Handle(processes, n)
                   /\ Handle(processes', n) = Handle(processes, n)
          /\ last'.op \in {"killed", "fault", "worker_exit"}
                => Handle(processes', n) = Handle(processes, n)]_vars

C25_Witness ==
    /\ last.op = "status" /\ IsBinary(last.name)
    /\ last.pid = 2 /\ last.status = RUNNING
    /\ processes[last.name].process = 2
    /\ osProcs[1].owner = last.name /\ osProcs[1].state = "dead"
    /\ osProcs[1].signals # <<>>
    /\ osProcs[2].owner = last.name /\ osProcs[2].state = "alive"
    /\ osProcs[2].path = "manifest"

\* C27: stop(name) on a Running process-backed plugin whose process is alive
\* sends the graceful termination request first and the forceful kill only
\* after the graceful wait timed out; the process has then exited and stop
\* returns true with status Stopped, handle and start timestamp cleared.
C27_StopGracefulThenKill ==
    [][\A n \in DOMAIN plugins :
          (Called("stop", n) /\ IsBinary(n) /\ ~plugins[n].builtin
             /\ Stored(n) = RUNNING /\ processes[n].process \in LiveProcs(n))
              => LET pid == processes[n].process
                 IN  /\ last'.ret = "true"
                     /\ processes'[n] = [process |-> NoProc, status |-> STOPPED,
                                         start_time |-> FALSE]
                     /\ osProcs'[pid].state = "dead"
                     /\ osProcs'[pid].signals =
                            IF last'.env = "true" THEN <<"terminate">>
                            ELSE <<"terminate", "kill">>]_vars

C27_Witness ==
    /\ last.op = "stop" /\ IsBinary(last.name) /\ last.pre = RUNNING
    /\ last.ret = "true" /\ last.env = "false"
    /\ processes[last.name] = NewProcessInfo
    /\ \E pid \in DOMAIN osProcs :
          /\ osProcs[pid].owner = last.name
          /\ osProcs[pid].signals = <<"terminate", "kill">>
          /\ osProcs[pid].state = "dead"

\* C28: when the liveness probe raises during stop(name) of a Running
\* process-backed plugin, the process is taken to be gone: stop returns true
\* and the plugin ends Stopped with its handle cleared, not in Error.
C28_StopProbeRaises ==
    [][\A n \in DOMAIN plugins :
          (Called("stop", n) /\ IsBinary(n) /\ ~plugins[n].builtin
             /\ Stored(n) = RUNNING /\ processes[n].process # NoProc
             /\ is_running(osProcs, processes[n].process) = "raise")
              => /\ last'.ret = "true"
                 /\ processes'[n].status = STOPPED
                 /\ processes'[n].process = NoProc]_vars

\* C30: start(name) of a code-module plugin whose entry file and capability
\* object are valid returns true with status Running after any sequence of
\* operations, loading the code unit when no module handle is present.
C30_StartEnsuresLoaded ==
    [][\A n \in DOMAIN plugins :
          (Called("start", n) /\ IsPython(n) /\ codeUnit[n] = "v1")
              => /\ last'.ret = "true"
                 /\ pyPlugins'[n].status = PY_RUNNING
                 /\ pyPlugins'[n].module = "v1"
                 /\ pyPlugins'[n].instance # NoInst]_vars

\* position of step x in the sequence of executed statements, 0 when absent
StepIndex(trace, x) ==
    IF \E i \in DOMAIN trace : trace[i] = x
    THEN CHOOSE i \in DOMAIN trace : trace[i] = x ELSE 0

\* C29: stop(name) on a Running code-module plugin sets the cancellation
\* signal before it invokes the stop hook and joins the worker, and it ends
\* also when the worker never observes the signal: it returns true after the
\* bounded join and the status is Loaded.
C29_StopSignalsThenJoins ==
    [][\A n \in DOMAIN plugins :
          (Called("stop", n) /\ IsPython(n) /\ Stored(n) = PY_RUNNING)
              => /\ last'.ret = "true"
                 /\ pyPlugins'[n].status = PY_LOADED
                 /\ pyPlugins'[n].stop_event
                 /\ StepIndex(last'.trace, "stop_event.set") = 1
                 /\ \A x \in {"instance.stop", "thread.join"} :
                       StepIndex(last'.trace, x) # 1
                 /\ (plugins[n].hasHooks /\ pyPlugins[n].instance # NoInst)
                       => objs'[pyPlugins[n].instance].stopped
                 /\ is_alive(workers, pyPlugins[n].thread)
                       => StepIndex(last'.trace, "thread.join") > 1]_vars

C29_Witness ==
    /\ last.op = "stop" /\ IsPython(last.name) /\ last.pre = PY_RUNNING
    /\ last.ret = "true" /\ last.env = "false"
    /\ pyPlugins[last.name].status = PY_LOADED
    /\ pyPlugins[last.name].stop_event
    /\ is_alive(workers, pyPlugins[last.name].thread)
    /\ StepIndex(last.trace, "thread.join") > 1

\* C22: no manager operation on a registered name lets a backend failure
\* escape as an exception: on a failed spawn, a probe of an exited process, a
\* failed config write or a raising hook it returns its failure value.
C22_NoExceptionEscapes ==
    last.name \in DOMAIN plugins => last.ret # "exc"

\* the operations of the manager and the value each returns for an unknown name
ManagerOps == {"start", "stop", "restart", "status", "get_config", "set_config",
               "logs", "exec"}
NotFoundValue(op) ==
    CASE op \in {"start", "stop", "restart", "set_config"} -> "false"
      [] op \in {"status", "get_config"} -> "none"
      [] op = "logs" -> "text"
      [] OTHER -> "plugin_not_found"

C21_StartAfterReloadRunsNewCode ==
    [][\A n \in DOMAIN plugins :
          (Called("start", n) /\ IsPython(n)
             /\ pyPlugins[n].module = "v1"
             /\ codeUnit[n] = "v2"
             /\ n \in DOMAIN pyManaged /\ pyManaged[n].module = "v2"
             /\ last'.ret = "true")
              => objs'[pyPlugins'[n].instance].code = "v2"]_vars

\* the directory holds a plugin discovery has to register
Valid(c) == c.manifest \in {"binary", "python"}

\* C23: discovery skips a directory whose manifest is missing or unusable and
\* registers every valid plugin of every root: nothing in a directory aborts
\* discovery, and when it is over the table holds exactly the valid plugins,
\* each with its kind.
C23_DiscoverySkipsBadDirs ==
    /\ ~scan.crashed
    /\ \A d \in DOMAIN plugins :
          d \in DOMAIN dirs /\ plugins[d].kind = dirs[d].manifest
    /\ scan.phase > Len(Phases)
          => \A d \in DOMAIN dirs : Valid(dirs[d]) => d \in DOMAIN plugins

\* C24: uninstall of a protected (builtin) plugin fails and has no side
\* effect: the plugin stays in the table, is not stopped, and its directory
\* and persisted config stay.
C24_UninstallProtected ==
    [][\A n \in DOMAIN plugins :
          (Called("uninstall", n) /\ plugins[n].builtin)
              => /\ last'.ret = "refused"
                 /\ UNCHANGED <<plugins, dirs, codeUnit, logFile>>
                 /\ UNCHANGED Backend]_vars

C24_Witness ==
    /\ last.op = "uninstall" /\ last.ret = "refused"
    /\ last.name \in DOMAIN plugins /\ plugins[last.name].builtin
    /\ IsPython(last.name) /\ pyPlugins[last.name].status = PY_RUNNING
    /\ pyPlugins[last.name].instance # NoInst
    /\ ~objs[pyPlugins[last.name].instance].stopped
    /\ configFile[last.name].exists
    /\ last.name \in DOMAIN dirs

\* C31: loading is idempotent: when a module handle is present, the implicit
\* load step of a start does not import the code unit again and leaves the
\* module handle unchanged.
C31_LoadIdempotent ==
    [][\A n \in DOMAIN plugins :
          (Called("start", n) /\ IsPython(n) /\ pyPlugins[n].module # NoModule)
              => pyPlugins'[n].module = pyPlugins[n].module]_vars

\* the stored statuses a call went through: the one before it, then every
\* status it assigned (a plugin without a ProcessInfo gets one in Stopped)
StatusPath(l) == <<IF l.pre = "none" THEN STOPPED ELSE l.pre>> \o l.trace

\* the transitions of the state machine; a probing call (status, stop) may
\* also move to Error
AllowedStep(op, a, b) ==
    \/ <<a, b>> \in {<<STOPPED, STARTING>>, <<STARTING, RUNNING>>, <<RUNNING, STOPPING>>,
                     <<STOPPING, STOPPED>>, <<STARTING, ERROR>>}
    \/ b = ERROR /\ op \in {"status", "stop"}

\* C32: every change of the stored status of a process-backed plugin made by
\* start, stop, restart or status is Stopped to Starting, Starting to Running,
\* Running to Stopping, Stopping to Stopped, Starting to Error, or a change to
\* Error by an abnormal probe.
C32_OnlyLifecycleTransitions ==
    (last.op \in {"start", "stop", "restart", "status"} /\ IsBinary(last.name))
        => \A i \in 1 .. (Len(StatusPath(last)) - 1) :
              \/ StatusPath(last)[i] = StatusPath(last)[i + 1]
              \/ AllowedStep(last.op, StatusPath(last)[i], StatusPath(last)[i + 1])

\* C35: the status reported for a code-module plugin is Running only when the
\* runtime status is Running, and Stopped when it is Unloaded or Loaded.
C35_ModuleStatusFaithful ==
    (last.op = "status" /\ IsPython(last.name))
        => /\ last.status = RUNNING => last.pre = PY_RUNNING
           /\ last.pre \in {PY_UNLOADED, PY_LOADED} => last.status = STOPPED

\* C36: when the process of a Running process-backed plugin is gone, a start
\* whose spawn succeeds returns true with a new live process, also when no
\* status call was made since the exit.
C36_StartAfterExit ==
    [][\A n \in DOMAIN plugins :
          (Called("start", n) /\ IsBinary(n) /\ Stored(n) = RUNNING /\ HandleDead(n)
             /\ last'.env = "ok")
              => /\ last'.ret = "true"
                 /\ Len(osProcs') = Len(osProcs) + 1
                 /\ processes'[n].process = Len(osProcs')
                 /\ osProcs'[Len(osProcs')].state = "alive"]_vars

\* C37: the exit of a worker of an earlier start does not change the status of
\* a plugin that was started again and whose current worker is still running.
C37_LateWorkerExitKeepsRunning ==
    [][\A t \in DOMAIN workers :
          (last'.op = "worker_exit" /\ workers[t].alive /\ ~workers'[t].alive
             /\ pyPlugins[workers[t].owner].thread # t
             /\ is_alive(workers, pyPlugins[workers[t].owner].thread)
             /\ pyPlugins[workers[t].owner].status = PY_RUNNING)
              => pyPlugins'[workers[t].owner].status = PY_RUNNING]_vars

\* C38: once the cancellation signal a worker polls is set, it stays set for
\* that worker until the worker exits, whatever is called for the plugin.
C38_SignalStaysSet ==
    [][\A t \in DOMAIN workers :
          (workers[t].alive /\ workers'[t].alive /\ polled_event(pyPlugins, workers, t))
              => polled_event(pyPlugins', workers', t)]_vars

\* C39: a restart of a process-backed plugin that spawns launches the new
\* process with the executable, argument list and environment that start
\* derives from the persisted configuration.
C39_RestartLaunchesLikeStart ==
    [][\A n \in DOMAIN plugins :
          (Called("restart", n) /\ IsBinary(n) /\ Len(osProcs') = Len(osProcs) + 1)
              => /\ osProcs'[Len(osProcs')].path = "manifest"
                 /\ osProcs'[Len(osProcs')].args
                 /\ osProcs'[Len(osProcs')].cfg
                       = Merge(DefaultConfig, get_config(configFile[n]))]_vars

\* C34: after uninstall of a non-protected plugin reports success, the name is
\* absent from the table, its directory and persisted config are removed, and
\* no OS process or worker of the plugin is still running.
C34_UninstallLeavesNothing ==
    [][\A n \in DOMAIN plugins :
          (Called("uninstall", n) /\ ~plugins[n].builtin /\ last'.ret = "success")
              => /\ n \notin DOMAIN plugins'
                 /\ n \notin DOMAIN dirs' /\ ~configFile'[n].exists
                 /\ \A pid \in DOMAIN osProcs' :
                       osProcs'[pid].owner = n => osProcs'[pid].state = "dead"
                 /\ \A t \in DOMAIN workers' :
                       workers'[t].owner = n => ~workers'[t].alive]_vars

\* C33: allStatuses() returns a mapping whose keys are exactly the names of
\* the table and whose value for each name is the PluginState, with one of the
\* five status values, that status(name) returns in the same state.
C33_AllStatusesMatchStatus ==
    last.op = "all_statuses"
        => /\ DOMAIN last.all = DOMAIN plugins
           /\ \A n \in DOMAIN plugins :
                 /\ last.all[n].ret = "state"
                 /\ last.all[n].status \in PluginStatus
                 /\ last.all[n].ret = get_plugin_status(State, n).ret
                 /\ last.all[n].status = get_plugin_status(State, n).status

\* C40: after cleanup no plugin has a live backend resource: no OS process
\* the manager spawned is alive, whatever the stored status, and every
\* code-module plugin is stopped (not Running, no worker alive).
C40_CleanupStopsEverything ==
    [][last'.op = "cleanup"
          => /\ \A pid \in DOMAIN osProcs' : osProcs'[pid].state = "dead"
             /\ \A n \in DOMAIN plugins :
                   IsPython(n) => pyPlugins'[n].status # PY_RUNNING
             /\ \A t \in DOMAIN workers' : ~workers'[t].alive]_vars

====
